---- MODULE Spec2Model ----
(* TinyCheck diagnostics script (server/backend/diagnostics.py):           *)
(* collect_db_tables_records_count, collect_internal_state and main,       *)
(* with the external processes (sqlite3, systemctl), the filesystem and    *)
(* the platform libraries as a nondeterministic environment.               *)
EXTENDS Integers, Sequences, FiniteSets, TLC

(***************************************************************************)
(* Bounds                                                                  *)
(***************************************************************************)
MaxTables == 2      \* number of table names the caller may pass
MaxAliases == 2     \* number of service aliases the caller may pass
MaxOut == 2         \* length of the text sqlite3 writes on stdout

(***************************************************************************)
(* Configuration values of main (lines 164-177)                            *)
(***************************************************************************)
AllTables == <<"iocs", "whitelist", "misp">>
AllAliases == <<"frontend", "backend", "kiosk", "watchers">>
MainServiceId(alias) ==
    CASE alias = "frontend" -> "tinycheck-frontend.service"
      [] alias = "backend" -> "tinycheck-backend.service"
      [] alias = "kiosk" -> "tinycheck-kiosk.service"
      [] OTHER -> "tinycheck-watchers.service"
deps == {"psutil", "flask"}

TableNames == {AllTables[n] : n \in 1..MaxTables}
Aliases == {AllAliases[n] : n \in 1..MaxAliases}

(***************************************************************************)
(* Text                                                                    *)
(***************************************************************************)
\* bytes a child process may write: digits, newline, a letter, a byte that
\* is not valid UTF-8
Bytes == {"0", "1", "\n", "x", "xFF"}
Digits == {"0", "1"}
Outputs == UNION {[1..k -> Bytes] : k \in 0..MaxOut}

\* bytes.decode("utf-8"): UnicodeDecodeError on an invalid byte
decode(b) ==
    IF \E n \in 1..Len(b) : b[n] = "xFF"
    THEN [ok |-> FALSE, val |-> <<>>]
    ELSE [ok |-> TRUE, val |-> b]

RECURSIVE lstrip(_)
lstrip(s) == IF s # <<>> /\ Head(s) = "\n" THEN lstrip(Tail(s)) ELSE s
RECURSIVE rstrip(_)
rstrip(s) ==
    IF s # <<>> /\ s[Len(s)] = "\n" THEN rstrip(SubSeq(s, 1, Len(s) - 1)) ELSE s

DigitVal(c) == IF c = "1" THEN 1 ELSE 0
RECURSIVE DecimalValue(_)
DecimalValue(s) ==
    IF s = <<>> THEN 0
    ELSE 10 * DecimalValue(SubSeq(s, 1, Len(s) - 1)) + DigitVal(s[Len(s)])

\* int(val): surrounding whitespace is ignored, then one or more digits;
\* anything else is a ValueError
py_int(val) ==
    LET body == rstrip(lstrip(val))
    IN  IF body # <<>> /\ \A n \in 1..Len(body) : body[n] \in Digits
        THEN [ok |-> TRUE, val |-> DecimalValue(body)]
        ELSE [ok |-> FALSE, val |-> 0]

\* recs = int(val) if val else 0   (line 113)
recs_of(val) == IF val # <<>> THEN py_int(val) ELSE [ok |-> TRUE, val |-> 0]

\* needle in haystack, on token sequences
Contains(hay, needle) ==
    \E n \in 0..(Len(hay) - Len(needle)) :
        SubSeq(hay, n + 1, n + Len(needle)) = needle

RECURSIVE Flatten(_)
Flatten(ss) == IF ss = <<>> THEN <<>> ELSE Head(ss) \o Flatten(Tail(ss))

EmptyMap == [x \in {} |-> 0]

(***************************************************************************)
(* The service supervisor (systemctl) as the code drives it                *)
(***************************************************************************)
marker == <<"could", "not", "be", "found">>
ServiceNotFound == <<"Service", "not", "found">>

\* Popen is given a list and no shell: the pipe and the grep words are
\* handed to systemctl as further unit names (lines 141-144)
ExtraArgs == <<"|", "grep", "''">>
status_argv(id) == <<id>> \o ExtraArgs

\* wording the supervisor uses on stderr for a unit it does not know
ErrFormats == {"could_not_be_found", "not_found", "silent"}
NotFoundLine(unit, fmt) ==
    CASE fmt = "could_not_be_found" ->
             <<"Unit", unit, "could", "not", "be", "found", ".">>
      [] fmt = "not_found" -> <<"Unit", unit, "not", "found", ".">>
      [] OTHER -> <<>>

\* stderr of "systemctl status u1 u2 ...": one line per unknown unit, or
\* the connection error when the supervisor cannot be reached
systemctl_stderr(argv, known, fmt, cond) ==
    IF cond = "unreachable"
    THEN <<"Failed", "to", "connect", "to", "bus">>
    ELSE Flatten([n \in 1..Len(argv) |->
                    IF argv[n] \in known THEN <<>>
                    ELSE NotFoundLine(argv[n], fmt)])

\* stdout of "systemctl status"
StatusTexts == {<<>>, <<"Active:", "inactive", "(dead)">>}

\* exit status of "systemctl is-active --quiet"
IsActiveExit(cond) ==
    CASE cond = "active" -> {0}
      [] cond = "inactive" -> {3}
      [] cond = "absent" -> {4}
      [] OTHER -> {1}

\* conditions a unit can be in, given the supervisor
UnitConds(sup) ==
    IF sup = "unreachable" THEN {"unreachable"}
    ELSE {"active", "inactive", "absent"}

(***************************************************************************)
(* State                                                                   *)
(***************************************************************************)
VARIABLES
    isfile,        \* environment: os.path.isfile(db_path)
    sqlite3,       \* environment: the sqlite3 binary can be spawned
    supervisor,    \* environment: "ok", "unreachable" or "missing" (no binary)
    errFormat,     \* environment: wording of the supervisor's stderr
    tables,        \* argument: sequence of table names
    to_check,      \* argument: alias -> service identifier
    pc,            \* position in collect_internal_state
    state_,        \* the result under construction
    result,        \* collect_db_tables_records_count: result
    t,             \* index of the table being counted
    services_,     \* alias -> entry
    a,             \* index of the alias being checked
    status,        \* exit status of the last is-active call
    inflight,      \* child processes spawned and not yet reaped
    calls,         \* completed external calls, in order
    unitCond,      \* history: condition of the unit when alias was checked
    cause,         \* history: what raised, if anything
    system,        \* environment: platform.system()
    mpc,           \* position in main
    diagnostics    \* main: the report under construction

vars == <<isfile, sqlite3, supervisor, errFormat, tables, to_check, pc, state_,
          result, t, services_, a, status, inflight, calls, unitCond, cause,
          system, mpc, diagnostics>>

env == <<isfile, sqlite3, supervisor, errFormat, tables, to_check, system>>
db_locals == <<result, t>>
svc_locals == <<services_, a, status, unitCond>>
main_vars == <<mpc, diagnostics>>

\* iteration order of the dict to_check
aliases == SelectSeq(AllAliases, LAMBDA x : x \in DOMAIN to_check)

\* subsequences of AllTables with at most MaxTables names
TableLists ==
    {SelectSeq(AllTables, LAMBDA x : x \in S) : S \in SUBSET TableNames}
\* any set of aliases, each mapped to its unit as in main
ServiceSpecs == {[alias \in S |-> MainServiceId(alias)] : S \in SUBSET Aliases}

InitLocals ==
    /\ state_ = EmptyMap
    /\ result = EmptyMap
    /\ t = 1
    /\ services_ = EmptyMap
    /\ a = 1
    /\ status = 0
    /\ inflight = <<>>
    /\ calls = <<>>
    /\ unitCond = EmptyMap
    /\ cause = "none"
    /\ diagnostics = EmptyMap

InitEnv ==
    /\ isfile \in BOOLEAN
    /\ sqlite3 \in BOOLEAN
    /\ supervisor \in {"ok", "unreachable", "missing"}
    /\ errFormat \in ErrFormats

\* collect_internal_state called with any arguments
Init ==
    /\ InitEnv
    /\ tables \in TableLists
    /\ to_check \in ServiceSpecs
    /\ system = "Linux"
    /\ pc = "start"
    /\ mpc = "none"
    /\ InitLocals

(***************************************************************************)
(* collect_internal_state, lines 123-133: the datastore                    *)
(***************************************************************************)
Put(m, k, v) == [x \in DOMAIN m \cup {k} |-> IF x = k THEN v ELSE m[x]]

\* lines 126-130
InitialDb_zeroed(available) ==
    [available |-> available, size |-> 0,
     records |-> [x \in {tables[n] : n \in 1..Len(tables)} |-> 0]]
InitialDb(available) ==
    [available |-> available, size |-> 0, records |-> EmptyMap]

\* line 131
AfterIsFile_always(available) == "stat"
AfterIsFile(available) == IF available THEN "stat" ELSE "svc_loop"

\* lines 123-131
IsFile ==
    /\ pc = "start"
    /\ state_' = [db |-> InitialDb(isfile)]
    /\ calls' = Append(calls, <<"isfile">>)
    /\ pc' = AfterIsFile(isfile)
    /\ UNCHANGED <<env, db_locals, svc_locals, inflight, cause, main_vars>>

\* st_size of the datastore file
DbSizes == {4096}

\* line 132, and the entry into collect_db_tables_records_count (107)
Stat ==
    /\ pc = "stat"
    /\ \E size \in DbSizes :
          state_' = [state_ EXCEPT !.db.size = size]
    /\ calls' = Append(calls, <<"stat">>)
    /\ result' = EmptyMap
    /\ t' = 1
    /\ pc' = "db_loop"
    /\ UNCHANGED <<env, svc_locals, inflight, cause, main_vars>>

Spawn(procs, call) == Append(procs, call)
\* communicate() and call() wait for the child and reap it
Reap_never(procs) == procs
Reap(procs) == Tail(procs)

\* lines 108-110: Popen(['sqlite3', db_path, query])
DbSpawn ==
    /\ pc = "db_loop"
    /\ t <= Len(tables)
    /\ sqlite3
    /\ inflight' = Spawn(inflight, <<"count", tables[t]>>)
    /\ pc' = "db_wait"
    /\ UNCHANGED <<env, state_, db_locals, svc_locals, calls, cause, main_vars>>

\* line 110 when the binary is missing: FileNotFoundError
DbSpawnRaise ==
    /\ pc = "db_loop"
    /\ t <= Len(tables)
    /\ ~sqlite3
    /\ pc' = "raised"
    /\ cause' = "table_query"
    /\ UNCHANGED <<env, state_, db_locals, svc_locals, inflight, calls,
                   main_vars>>

\* line 114
store_count_dropped(res, table, recs) == res
store_count(res, table, recs) == Put(res, table, recs)

count_of(out) ==
    LET val == decode(out)
    IN  IF val.ok THEN recs_of(val.val) ELSE [ok |-> FALSE, val |-> 0]

\* lines 111-114
DbCommunicate ==
    /\ pc = "db_wait"
    /\ \E out \in Outputs :
          /\ count_of(out).ok
          /\ result' = store_count(result, tables[t], count_of(out).val)
    /\ inflight' = Reap(inflight)
    /\ calls' = Append(calls, Head(inflight))
    /\ t' = t + 1
    /\ pc' = "db_loop"
    /\ UNCHANGED <<env, state_, svc_locals, cause, main_vars>>

\* lines 112-113 raising UnicodeDecodeError or ValueError
DbCommunicateRaise ==
    /\ pc = "db_wait"
    /\ \E out \in Outputs :
          /\ ~count_of(out).ok
          /\ calls' = Append(calls, Head(inflight) \o <<out>>)
    /\ inflight' = Reap(inflight)
    /\ pc' = "raised"
    /\ cause' = "table_query"
    /\ UNCHANGED <<env, state_, db_locals, svc_locals, main_vars>>

\* lines 115 and 133
DbReturn ==
    /\ pc = "db_loop"
    /\ t > Len(tables)
    /\ state_' = [state_ EXCEPT !.db.records = result]
    /\ pc' = "svc_loop"
    /\ UNCHANGED <<env, db_locals, svc_locals, inflight, calls, cause,
                   main_vars>>

(***************************************************************************)
(* collect_internal_state, lines 135-158: the services                     *)
(***************************************************************************)
\* lines 152-156
ServiceEntry_always_running(st, state) ==
    [running |-> TRUE, status |-> st, state |-> state]
ServiceEntry(st, state) ==
    [running |-> st = 0, status |-> st, state |-> state]

\* lines 148-151
state_of_stdout(stout, errs) ==
    IF Contains(stout, marker) THEN ServiceNotFound ELSE stout
state_of(stout, errs) ==
    IF Contains(errs, marker) THEN ServiceNotFound ELSE stout

\* line 137: subprocess.call spawns systemctl ...
IsActiveSpawn ==
    /\ pc = "svc_loop"
    /\ a <= Len(aliases)
    /\ supervisor # "missing"
    /\ inflight' = Spawn(inflight, <<"is-active", to_check[aliases[a]]>>)
    /\ pc' = "isactive_wait"
    /\ UNCHANGED <<env, state_, db_locals, svc_locals, calls, cause, main_vars>>

\* line 137 when the binary is missing: FileNotFoundError
IsActiveRaise ==
    /\ pc = "svc_loop"
    /\ a <= Len(aliases)
    /\ supervisor = "missing"
    /\ pc' = "raised"
    /\ cause' = "supervisor"
    /\ UNCHANGED <<env, state_, db_locals, svc_locals, inflight, calls,
                   main_vars>>

\* ... and waits for it; status == 0: lines 138-139 and 152-156
IsActiveRunning ==
    /\ pc = "isactive_wait"
    /\ \E cond \in UnitConds(supervisor) :
          /\ 0 \in IsActiveExit(cond)
          /\ unitCond' = Put(unitCond, aliases[a], cond)
    /\ status' = 0
    /\ services_' = Put(services_, aliases[a], ServiceEntry(0, <<>>))
    /\ inflight' = Reap(inflight)
    /\ calls' = Append(calls, Head(inflight) \o <<0>>)
    /\ a' = a + 1
    /\ pc' = "svc_loop"
    /\ UNCHANGED <<env, state_, db_locals, cause, main_vars>>

\* status != 0: lines 138-139
IsActiveFailed ==
    /\ pc = "isactive_wait"
    /\ \E cond \in UnitConds(supervisor) :
          \E rc \in IsActiveExit(cond) \ {0} :
             /\ unitCond' = Put(unitCond, aliases[a], cond)
             /\ status' = rc
             /\ calls' = Append(calls, Head(inflight) \o <<rc>>)
    /\ inflight' = Reap(inflight)
    /\ pc' = "status_spawn"
    /\ UNCHANGED <<env, state_, db_locals, services_, a, cause, main_vars>>

\* lines 140-146
StatusSpawn ==
    /\ pc = "status_spawn"
    /\ inflight' = Spawn(inflight, <<"status", to_check[aliases[a]]>>)
    /\ pc' = "status_wait"
    /\ UNCHANGED <<env, state_, db_locals, svc_locals, calls, cause, main_vars>>

\* units the supervisor knows, among those named on the command line
KnownUnits(id, cond, extra) ==
    extra \cup (IF cond \in {"active", "inactive"} THEN {id} ELSE {})

\* lines 147-156
StatusCommunicate ==
    /\ pc = "status_wait"
    /\ LET alias == aliases[a]
           id == to_check[alias]
           cond == unitCond[alias]
       IN  \E stout \in StatusTexts :
             \E extra \in SUBSET {ExtraArgs[n] : n \in 1..Len(ExtraArgs)} :
               LET errs == systemctl_stderr(status_argv(id),
                               KnownUnits(id, cond, extra), errFormat, cond)
               IN  services_' = Put(services_, alias,
                                    ServiceEntry(status, state_of(stout, errs)))
    /\ inflight' = Reap(inflight)
    /\ calls' = Append(calls, Head(inflight))
    /\ a' = a + 1
    /\ pc' = "svc_loop"
    /\ UNCHANGED <<env, state_, db_locals, status, unitCond, cause, main_vars>>

\* lines 157-158
SvcReturn ==
    /\ pc = "svc_loop"
    /\ a > Len(aliases)
    /\ state_' = [db |-> state_.db, svc |-> services_]
    /\ pc' = "done"
    /\ UNCHANGED <<env, db_locals, svc_locals, inflight, calls, cause,
                   main_vars>>

collect_internal_state ==
    \/ IsFile \/ Stat
    \/ DbSpawn \/ DbSpawnRaise \/ DbCommunicate \/ DbCommunicateRaise
    \/ DbReturn
    \/ IsActiveSpawn \/ IsActiveRaise \/ IsActiveRunning \/ IsActiveFailed
    \/ StatusSpawn \/ StatusCommunicate \/ SvcReturn

Next == collect_internal_state

Spec == Init /\ [][Next]_vars

(***************************************************************************)
(* The probes and main, lines 12-104 and 160-188                           *)
(***************************************************************************)
None == "None"
locals == <<pc, state_, db_locals, svc_locals, inflight, calls>>

Sessions == {<<"alice", "tty1">>}

\* lines 25-29: the key of the entry for the running process
self_key(alt_user, home_is_root, terminal) ==
    LET usr == IF home_is_root THEN "root" ELSE alt_user
        term == IF system = "Linux" THEN terminal ELSE "win"
    IN  <<usr, term>>

\* lines 18-30
collect_accounts_info ==
    /\ mpc = "acc"
    /\ \E users \in SUBSET Sessions, alt_user \in {None, "alice"},
          home_is_root \in BOOLEAN, terminal \in {None, "/dev/pts/0"} :
          LET key == self_key(alt_user, home_is_root, terminal)
          IN  /\ key[1] # None
              /\ key[2] # None
              /\ diagnostics' = Put(diagnostics, "acc", users \cup {key})
    /\ mpc' = "os"
    /\ UNCHANGED <<env, locals, cause>>

\* line 29 with usr or term None: TypeError
collect_accounts_info_raise ==
    /\ mpc = "acc"
    /\ \E alt_user \in {None, "alice"}, home_is_root \in BOOLEAN,
          terminal \in {None, "/dev/pts/0"} :
          LET key == self_key(alt_user, home_is_root, terminal)
          IN  key[1] = None \/ key[2] = None
    /\ mpc' = "aborted"
    /\ cause' = "acc"
    /\ UNCHANGED <<env, locals, diagnostics>>

\* lines 38-47
os_info_keys ==
    {"system", "release", "version", "platform"}
        \cup (IF system \in {"Windows", "Linux"} THEN {"dist"} ELSE {})

collect_os_info ==
    /\ mpc = "os"
    /\ diagnostics' = Put(diagnostics, "os", os_info_keys)
    /\ mpc' = "hw"
    /\ UNCHANGED <<env, locals, cause>>

\* lines 54-66
collect_hardware_info ==
    /\ mpc = "hw"
    /\ diagnostics' = Put(diagnostics, "hw",
                           {"arch", "machine", "cpus", "cores", "load", "disk"})
    /\ mpc' = "net"
    /\ UNCHANGED <<env, locals, cause>>

Interfaces == {"lo"}

\* lines 74-87
collect_network_info ==
    /\ mpc = "net"
    /\ \E addrs \in SUBSET Interfaces, counters \in SUBSET Interfaces :
          /\ addrs \subseteq counters
          /\ diagnostics' = Put(diagnostics, "net", {"namei"} \cup addrs)
    /\ mpc' = "deps"
    /\ UNCHANGED <<env, locals, cause>>

\* line 80 for an interface without counters: KeyError
collect_network_info_raise ==
    /\ mpc = "net"
    /\ \E addrs \in SUBSET Interfaces, counters \in SUBSET Interfaces :
          ~(addrs \subseteq counters)
    /\ mpc' = "aborted"
    /\ cause' = "net"
    /\ UNCHANGED <<env, locals, diagnostics>>

Packages == {"psutil", "pip"}

\* lines 95-104
collect_dependency_info ==
    /\ mpc = "deps"
    /\ \E installed \in SUBSET Packages :
          diagnostics' = Put(diagnostics, "deps", installed \cap deps)
    /\ mpc' = "state"
    /\ UNCHANGED <<env, locals, cause>>

\* line 185: the call
main_call_state ==
    /\ mpc = "state"
    /\ pc = "idle"
    /\ pc' = "start"
    /\ mpc' = "in_state"
    /\ UNCHANGED <<env, state_, db_locals, svc_locals, inflight, calls, cause,
                   diagnostics>>

\* lines 185-188: the call returns, the report is printed
main_return ==
    /\ mpc = "in_state"
    /\ pc = "done"
    /\ diagnostics' = Put(diagnostics, "state", state_)
    /\ mpc' = "done"
    /\ UNCHANGED <<env, locals, cause>>

\* line 185: no handler, the exception leaves main
main_abort ==
    /\ mpc = "in_state"
    /\ pc = "raised"
    /\ mpc' = "aborted"
    /\ UNCHANGED <<env, locals, cause, diagnostics>>

\* lines 164-170, cut to the bounds
main_tables == SubSeq(AllTables, 1, MaxTables)
main_services == [alias \in Aliases |-> MainServiceId(alias)]

InitMain ==
    /\ InitEnv
    /\ system \in {"Linux", "Windows", "Darwin"}
    /\ tables = main_tables
    /\ to_check = main_services
    /\ pc = "idle"
    /\ mpc = "acc"
    /\ InitLocals

main ==
    \/ collect_accounts_info \/ collect_accounts_info_raise
    \/ collect_os_info \/ collect_hardware_info
    \/ collect_network_info \/ collect_network_info_raise
    \/ collect_dependency_info
    \/ main_call_state \/ main_return \/ main_abort

NextMain == main \/ collect_internal_state

SpecMain == InitMain /\ [][NextMain]_vars

(***************************************************************************)
(* Properties                                                              *)
(***************************************************************************)
Started == pc \notin {"idle", "start"}
TableSet == {tables[n] : n \in 1..Len(tables)}
Checked == DOMAIN services_
SupervisorOps == {"is-active", "status"}
six_keys == {"acc", "os", "hw", "net", "deps", "state"}

\* C1: when collect_internal_state has returned, the services mapping has
\* exactly the aliases of to_check as keys, and in every entry running is
\* true exactly when the recorded exit status is 0.
C1_ServicesComplete ==
    pc = "done" =>
        /\ DOMAIN state_.svc = DOMAIN to_check
        /\ \A alias \in DOMAIN to_check :
              state_.svc[alias].running = (state_.svc[alias].status = 0)

C1_Witness ==
    /\ pc = "done"
    /\ \E x, y \in DOMAIN to_check :
          state_.svc[x].running /\ ~state_.svc[y].running

\* C2 (as stated): the service check never raises; with the supervisor
\* binary missing or the supervisor unreachable the collection still ends
\* with an entry running = false for every alias.
C2_Original ==
    /\ ~(pc = "raised" /\ cause = "supervisor")
    /\ (pc = "done" /\ supervisor # "ok") =>
            \A alias \in DOMAIN to_check : ~state_.svc[alias].running

\* C3 (as stated): an alias whose identifier the supervisor does not know
\* gets running = false, a nonzero status and state "Service not found",
\* whatever the wording of the supervisor's error text.
C3_Original ==
    \A alias \in Checked :
        unitCond[alias] = "absent" =>
            /\ ~services_[alias].running
            /\ services_[alias].status # 0
            /\ services_[alias].state = ServiceNotFound

\* C3 (amended): an alias whose identifier the supervisor does not know
\* gets running = false and a nonzero status, and state "Service not
\* found" whenever the supervisor words its error as "could not be found".
C3_NotFoundByMarker ==
    \A alias \in Checked :
        unitCond[alias] = "absent" =>
            /\ ~services_[alias].running
            /\ services_[alias].status # 0
            /\ errFormat = "could_not_be_found" =>
                    services_[alias].state = ServiceNotFound

C3_Witness ==
    /\ pc = "done"
    /\ errFormat = "could_not_be_found"
    /\ \E alias \in Checked :
          /\ unitCond[alias] = "absent"
          /\ services_[alias].state = ServiceNotFound

\* C4 (as stated): for an identifier the supervisor knows, state is empty
\* when the service runs, and when it does not run state is the raw text
\* of the status query, never "Service not found".
C4_Original ==
    \A alias \in Checked :
        unitCond[alias] \in {"active", "inactive"} =>
            IF services_[alias].running
            THEN services_[alias].state = <<>>
            ELSE services_[alias].state \in StatusTexts

\* C5: when the datastore file is absent, db is {available: false, size: 0,
\* records: {}} and neither a size read nor a count query is made.
C5_AbsentDb ==
    (Started /\ ~isfile) =>
        /\ state_.db = [available |-> FALSE, size |-> 0, records |-> EmptyMap]
        /\ \A k \in 1..Len(calls) : calls[k][1] \notin {"stat", "count"}
        /\ \A k \in 1..Len(inflight) : inflight[k][1] # "count"

C5_Witness ==
    /\ pc = "done"
    /\ ~isfile
    /\ tables # <<>>
    /\ to_check # EmptyMap

\* C6 (as stated): in every result, db.records is empty exactly when
\* db.available is false.
C6_Original ==
    pc = "done" =>
        ((DOMAIN state_.db.records = {}) <=> ~state_.db.available)

\* C6 (amended): in every result, db.records is empty exactly when
\* db.available is false or no table name was passed.
C6_RecordsEmptyIff ==
    pc = "done" =>
        ((DOMAIN state_.db.records = {})
            <=> (~state_.db.available \/ tables = <<>>))

C6_Witness ==
    /\ pc = "done"
    /\ state_.db.available
    /\ tables = <<>>
    /\ DOMAIN state_.db.records = {}

\* C7 (as stated): when the datastore is unavailable, records[t] is 0 for
\* every configured table t and available is false.
C7_Original ==
    (pc = "done" /\ ~isfile) =>
        /\ ~state_.db.available
        /\ \A table \in TableSet :
              /\ table \in DOMAIN state_.db.records
              /\ state_.db.records[table] = 0

\* C7 (amended): when the datastore is unavailable, records has no entry
\* for any configured table t and available is false.
C7_NoCountsWhenUnavailable ==
    (pc = "done" /\ ~isfile) =>
        /\ ~state_.db.available
        /\ \A table \in TableSet : table \notin DOMAIN state_.db.records

C7_Witness ==
    /\ pc = "done"
    /\ ~isfile
    /\ Len(tables) >= 2

\* C8 (as stated): with the datastore available (and sqlite3 at hand) the
\* inspection always completes with one count for every table; a failing,
\* empty or unparsable count query gives 0 and never aborts.
C8_Original ==
    (isfile /\ sqlite3) =>
        /\ ~(pc = "raised" /\ cause = "table_query")
        /\ pc = "done" => DOMAIN state_.db.records = TableSet

\* C9 (as stated): a run of main that meets only partial failures (absent
\* datastore, missing package, failed supervisor or table query) ends with
\* a report holding all six keys.
C9_Original ==
    (mpc \in {"done", "aborted"}
        /\ cause \in {"none", "table_query", "supervisor"}) =>
        /\ mpc = "done"
        /\ DOMAIN diagnostics = six_keys

\* C10: external invocations are sequential: at most one child is in
\* flight and it is reaped before the next step; every count query ends
\* before the first supervisor query; each alias gets exactly one
\* is-active query; a status query is made exactly when the is-active
\* query of the same service returned nonzero, directly after it.
C10_Sequential ==
    /\ Len(inflight) <= 1
    /\ inflight # <<>> => pc \in {"db_wait", "isactive_wait", "status_wait"}
    /\ \A i, k \in 1..Len(calls) :
          (i < k /\ calls[k][1] = "count") => calls[i][1] \notin SupervisorOps
    /\ (inflight # <<>> /\ inflight[1][1] = "count") =>
          \A k \in 1..Len(calls) : calls[k][1] \notin SupervisorOps
    /\ \A k \in 1..Len(calls) :
          calls[k][1] = "status" =>
              /\ k > 1
              /\ calls[k - 1][1] = "is-active"
              /\ calls[k - 1][2] = calls[k][2]
              /\ calls[k - 1][3] # 0
    /\ \A k \in 1..Len(calls) :
          (calls[k][1] = "is-active" /\ calls[k][3] # 0) =>
              IF k < Len(calls)
              THEN calls[k + 1] = <<"status", calls[k][2]>>
              ELSE pc \in {"status_spawn", "status_wait"}
    /\ pc = "done" =>
          LET probes == SelectSeq(calls, LAMBDA c : c[1] = "is-active")
          IN  /\ Len(probes) = Len(aliases)
              /\ \A n \in 1..Len(probes) :
                    probes[n][2] = to_check[aliases[n]]

C10_Witness ==
    /\ pc = "done"
    /\ \E k \in 1..Len(calls) : calls[k][1] = "count"
    /\ \E k \in 1..Len(calls) : calls[k][1] = "status"
    /\ \E k \in 1..Len(calls) : calls[k][1] = "is-active" /\ calls[k][3] = 0
====
